---------------------------- MODULE Spec2Model ----------------------------
(***************************************************************************)
(* The Paginator of Floor-Gang/utilpkg (package botutil): a sequence of    *)
(* embeds shown as one chat message, with Run, Add, the four navigation    *)
(* functions, close and isPaginatorUser.  Each goroutine that calls into   *)
(* the paginator is a thread with a program counter; a call that waits on  *)
(* the chat platform (message send, reactions removal) or on the timer is  *)
(* split at that wait, so that other goroutines interleave there.          *)
(***************************************************************************)
EXTENDS Integers, Sequences, FiniteSets

\* ------------------------------------------------------------------ bounds
MaxPages == 3
MaxSends == 2
MaxFailures == 1
MaxTimeOut == 1

\* --------------------------------------------------------------- universes
Threads == {"t1", "t2"}

\* *dg.User values: pointers to user objects.  Two objects may describe the
\* same platform identity.
UserPtrs == {"u1", "u1copy", "u2"}
Identity(u) == IF u = "u2" THEN "bob" ELSE "alice"

\* message: nil
NoMessage == 0
\* a message of the channel that this paginator does not host
ForeignMessage == MaxSends + 1
MessageIds == (1..MaxSends) \cup {ForeignMessage}

Actions == {"toBegin", "backwards", "forwards", "toEnd", "stop"}
\* the ControlEmojis value handed to NewPaginator: one glyph per field
controlEmojis == [toBegin |-> ":tack_previous:", backwards |-> ":rewind:",
                  forwards |-> ":fast_forward:", toEnd |-> ":track_next:",
                  stop |-> ":stop_button:"]
Emojis == {controlEmojis[a] : a \in Actions} \cup {":tada:"}

VARIABLES
    pages,            \* p.pages
    index,            \* p.index
    active,           \* p.active
    reactionsRemoved, \* p.reactionsRemoved
    message,          \* p.message: NoMessage or the id of the hosted message
    user,             \* p.user
    timeOut,          \* p.timeOut
    pc,               \* per thread: where its call stands
    remaining,        \* per thread: start.Add(p.timeOut).Sub(time.Now()) of its Run
    sent,             \* messages the platform has accepted (ChannelMessageSendComplex)
    removeCalls,      \* MessageReactionsRemoveAll calls issued
    failures,         \* platform calls that have failed so far
    panicked,         \* a Go runtime panic has ended the process
    disturbed,        \* a reaction event or a navigation call has reached the paginator
    reactionsAdded,   \* the emojis MessageReactionAdd was called with, in order
    footers,          \* per page: the numbers of its Footer (<<>>: no footer)
    lastOp            \* the step taken last

vars == <<pages, index, active, reactionsRemoved, message, user, timeOut, pc,
          remaining, sent, removeCalls, failures, panicked,
          disturbed, reactionsAdded, footers, lastOp>>

\* op: the step; err: what the call returned to its caller with this step
\* ("pending": it has not returned); actor: the user of a reaction event;
\* edit: the page a message edit of this step carried (0: no edit)
Op(o, err, actor, edit) == [op |-> o, err |-> err, actor |-> actor, edit |-> edit]

\* ------------------------------------------------------------ NewPaginator
Init ==
    /\ pages = <<>>
    /\ index = 0
    /\ active = FALSE
    /\ reactionsRemoved = FALSE
    /\ message = NoMessage
    /\ user = "u1"
    /\ timeOut \in 1..MaxTimeOut
    /\ pc = [t \in Threads |-> "idle"]
    /\ remaining = [t \in Threads |-> 0]
    /\ sent = 0
    /\ removeCalls = 0
    /\ failures = 0
    /\ panicked = FALSE
    /\ disturbed = FALSE
    /\ reactionsAdded = <<>>
    /\ footers = <<>>
    /\ lastOp = Op("NewPaginator", "nil", "-", 0)

\* --------------------------------------------------------------------- Add
\* verifyEmbed is outside the repository's sources: its verdict is an input.
\* The embeds are distinct objects, named by the slot they are added to.
Add(t, valid) ==
    /\ ~panicked
    /\ pc[t] = "idle"
    /\ Len(pages) < MaxPages
    /\ pages' = IF valid THEN Append(pages, Len(pages) + 1) ELSE pages
    /\ footers' = IF valid THEN Append(footers, <<>>) ELSE footers
    /\ lastOp' = Op("Add", IF valid THEN "nil" ELSE "InvalidEmbed", "-", 0)
    /\ UNCHANGED <<index, active, reactionsRemoved, message, user, timeOut, pc,
                   remaining, sent, removeCalls, failures, panicked, disturbed,
                   reactionsAdded>>

\* --------------------------------------------------------------------- Run
RunAlreadyRunning(a) == a

RunNoPages_Mut(pgs) == Len(pgs) < 0

RunNoPages(pgs) == Len(pgs) = 0

\* Run up to the call of ChannelMessageSendComplex.
RunCall(t) ==
    /\ ~panicked
    /\ pc[t] = "idle"
    /\ IF RunAlreadyRunning(active)
         THEN /\ lastOp' = Op("Run", "AlreadyRunning", "-", 0)
              /\ UNCHANGED <<pc, panicked>>
         ELSE IF RunNoPages(pages)
         THEN /\ lastOp' = Op("Run", "NoPages", "-", 0)
              /\ UNCHANGED <<pc, panicked>>
         ELSE IF index >= Len(pages)
         \* p.pages[p.index]: index out of range
         THEN /\ lastOp' = Op("Run", "pending", "-", 0)
              /\ panicked' = TRUE
              /\ UNCHANGED pc
         ELSE /\ sent + Cardinality({u \in Threads : pc[u] = "sending"}) < MaxSends
              /\ lastOp' = Op("Run", "pending", "-", 0)
              /\ pc' = [pc EXCEPT ![t] = "sending"]
              /\ UNCHANGED panicked
    /\ UNCHANGED <<pages, index, active, reactionsRemoved, message, user, timeOut,
                   remaining, sent, removeCalls, failures, disturbed,
                   reactionsAdded, footers>>

\* RunSendReturn with p.active = true placed ahead of the error check
RunSendReturn_Mut(t, ok) ==
    /\ ~panicked
    /\ pc[t] = "sending"
    /\ active' = TRUE
    /\ IF ok
         THEN /\ sent' = sent + 1
              /\ message' = sent + 1
              /\ remaining' = [remaining EXCEPT ![t] = timeOut]
              /\ pc' = [pc EXCEPT ![t] = "waiting"]
              /\ lastOp' = Op("RunSendReturn", "pending", "-", 0)
              /\ UNCHANGED failures
         ELSE /\ failures < MaxFailures
              /\ failures' = failures + 1
              /\ pc' = [pc EXCEPT ![t] = "idle"]
              /\ lastOp' = Op("RunSendReturn", "PlatformFailure", "-", 0)
              /\ UNCHANGED <<sent, message, remaining>>
    /\ UNCHANGED <<pages, index, reactionsRemoved, user, timeOut, removeCalls,
                   panicked, disturbed, reactionsAdded, footers>>

\* ChannelMessageSendComplex returns; on success Run records the message,
\* takes the start time and becomes active.
RunSendReturn(t, ok) ==
    /\ ~panicked
    /\ pc[t] = "sending"
    /\ IF ok
         THEN /\ sent' = sent + 1
              /\ message' = sent + 1
              /\ active' = TRUE
              /\ remaining' = [remaining EXCEPT ![t] = timeOut]
              /\ pc' = [pc EXCEPT ![t] = "waiting"]
              /\ lastOp' = Op("RunSendReturn", "pending", "-", 0)
              /\ UNCHANGED failures
         ELSE /\ failures < MaxFailures
              /\ failures' = failures + 1
              /\ pc' = [pc EXCEPT ![t] = "idle"]
              /\ lastOp' = Op("RunSendReturn", "PlatformFailure", "-", 0)
              /\ UNCHANGED <<sent, message, active, remaining>>
    /\ UNCHANGED <<pages, index, reactionsRemoved, user, timeOut, removeCalls,
                   panicked, disturbed, reactionsAdded, footers>>

\* Time passes for every Run that waits in its select.
Tick ==
    /\ ~panicked
    /\ \E t \in Threads : pc[t] = "waiting" /\ remaining[t] > 0
    /\ remaining' = [t \in Threads |->
                       IF pc[t] = "waiting" /\ remaining[t] > 0
                         THEN remaining[t] - 1 ELSE remaining[t]]
    /\ lastOp' = Op("Tick", "pending", "-", 0)
    /\ UNCHANGED <<pages, index, active, reactionsRemoved, message, user, timeOut,
                   pc, sent, removeCalls, failures, panicked, disturbed,
                   reactionsAdded, footers>>

\* ------------------------------------------------------------------- close
closeSkipsRemoval_Mut(removed) == ~removed

closeSkipsRemoval(removed) == removed

\* closeCall with p.active = false reached only when the removal is skipped
closeCall_Mut(t, o, busy, actor) ==
    IF closeSkipsRemoval(reactionsRemoved)
      THEN /\ active' = FALSE
           /\ lastOp' = Op(o, "nil", actor, 0)
           /\ pc' = [pc EXCEPT ![t] = "idle"]
           /\ UNCHANGED removeCalls
      ELSE /\ removeCalls' = removeCalls + 1
           /\ lastOp' = Op(o, "pending", actor, 0)
           /\ pc' = [pc EXCEPT ![t] = busy]
           /\ UNCHANGED active

\* close up to the call of MessageReactionsRemoveAll, by thread t; o names the
\* step that calls it and busy the place the thread waits at for the platform.
closeCall(t, o, busy, actor) ==
    /\ active' = FALSE
    /\ IF closeSkipsRemoval(reactionsRemoved)
         THEN /\ lastOp' = Op(o, "nil", actor, 0)
              /\ pc' = [pc EXCEPT ![t] = "idle"]
              /\ UNCHANGED removeCalls
         ELSE /\ removeCalls' = removeCalls + 1
              /\ lastOp' = Op(o, "pending", actor, 0)
              /\ pc' = [pc EXCEPT ![t] = busy]

\* MessageReactionsRemoveAll returns to close, and close to its caller: Run
\* (pc "closing") or the handler of the stop reaction (pc "stopping").
closeReturn(t, ok) ==
    /\ ~panicked
    /\ pc[t] \in {"closing", "stopping"}
    /\ IF ok
         THEN /\ reactionsRemoved' = TRUE
              /\ lastOp' = Op(IF pc[t] = "closing" THEN "RunReturn" ELSE "stopReturn", "nil", "-", 0)
              /\ UNCHANGED failures
         ELSE /\ failures < MaxFailures
              /\ failures' = failures + 1
              /\ lastOp' = Op(IF pc[t] = "closing" THEN "RunReturn" ELSE "stopReturn", "PlatformFailure", "-", 0)
              /\ UNCHANGED reactionsRemoved
    /\ pc' = [pc EXCEPT ![t] = "idle"]
    /\ UNCHANGED <<pages, index, active, message, user, timeOut, remaining, sent,
                   removeCalls, panicked, disturbed, reactionsAdded, footers>>

\* The timer of Run's select fires: Run returns p.close().
RunTimeout(t) ==
    /\ ~panicked
    /\ pc[t] = "waiting"
    /\ remaining[t] = 0
    /\ closeCall(t, "RunTimeout", "closing", "-")
    /\ UNCHANGED <<pages, index, reactionsRemoved, message, user, timeOut,
                   remaining, sent, failures, panicked, disturbed, reactionsAdded,
                   footers>>

\* ------------------------------------------------------------- navigation
\* What a navigation function leaves behind: the index, the error it returned
\* ("pending": it did not return), the page its message edit carried (0:
\* no edit was issued) and whether it ended in a runtime panic.
Rejected(i) == [index |-> i, err |-> "IndexBounds", edit |-> 0, panic |-> FALSE]

\* updatePaginatorMessage(e): the edit of the hosted message, and its error
updatePaginatorMessage(e, editOk) ==
    [err |-> IF editOk THEN "nil" ELSE "PlatformFailure", edit |-> e]

\* p.index = i, then updatePaginatorMessage(p.pages[p.index]); indexing the
\* slice outside 0..len-1 panics, after the index was assigned
Moved(i, pgs, editOk) ==
    IF 0 <= i /\ i < Len(pgs)
      THEN LET u == updatePaginatorMessage(pgs[i + 1], editOk)
           IN [index |-> i, err |-> u.err, edit |-> u.edit, panic |-> FALSE]
      ELSE [index |-> i, err |-> "pending", edit |-> 0, panic |-> TRUE]

nextPageAtMax(i, pgs) == i = Len(pgs) + 1

nextPage(i, pgs, editOk) ==
    IF nextPageAtMax(i, pgs) THEN Rejected(i) ELSE Moved(i + 1, pgs, editOk)

previousPage_Mut(i, pgs, editOk) == Moved(i - 1, pgs, editOk)

previousPage(i, pgs, editOk) ==
    IF i = 0 THEN Rejected(i) ELSE Moved(i - 1, pgs, editOk)

firstPage_Mut(i, pgs, editOk) == Moved(0, pgs, editOk)

firstPage(i, pgs, editOk) ==
    IF i = 0 THEN Rejected(i) ELSE Moved(0, pgs, editOk)

lastPage(i, pgs, editOk) ==
    IF i = 0 THEN Rejected(i) ELSE Moved(Len(pgs) - 1, pgs, editOk)

NavActions == {"toBegin", "backwards", "forwards", "toEnd"}

NavName(a) ==
    CASE a = "toBegin" -> "firstPage"
      [] a = "backwards" -> "previousPage"
      [] a = "forwards" -> "nextPage"
      [] a = "toEnd" -> "lastPage"

Navigate(a, i, pgs, editOk) ==
    CASE a = "toBegin" -> firstPage(i, pgs, editOk)
      [] a = "backwards" -> previousPage(i, pgs, editOk)
      [] a = "forwards" -> nextPage(i, pgs, editOk)
      [] a = "toEnd" -> lastPage(i, pgs, editOk)

\* The state a navigation function leaves, r being its outcome.
navEffect(r) ==
    /\ r.err = "PlatformFailure" => failures < MaxFailures
    /\ index' = r.index
    /\ panicked' = r.panic
    /\ failures' = IF r.err = "PlatformFailure" THEN failures + 1 ELSE failures

\* A navigation function called on a paginator that hosts a message.
NavCall(t, a, editOk) ==
    /\ ~panicked
    /\ pc[t] = "idle"
    /\ message # NoMessage
    /\ LET r == Navigate(a, index, pages, editOk)
       IN /\ navEffect(r)
          /\ lastOp' = Op(NavName(a), r.err, "-", r.edit)
    /\ disturbed' = TRUE
    /\ UNCHANGED <<pages, active, reactionsRemoved, message, user, timeOut, pc,
                   remaining, sent, removeCalls, reactionsAdded, footers>>

\* ------------------------------------------ functions that nothing calls
\* addReactions: the MessageReactionAdd calls it issues when none fails, one
\* per field of the ControlEmojis struct, in the order of the fields.
addReactions(emojis) ==
    <<emojis.toBegin, emojis.backwards, emojis.forwards, emojis.toEnd, emojis.stop>>

\* fmt.Sprintf("%d/%d", p.index+1, len(p.pages)): the two numbers printed
pageNumber(i, pgs) == <<i + 1, Len(pgs)>>

\* setPageNumber: the footers it leaves; every page gets the same one.
setPageNumber(i, pgs) == [k \in 1..Len(pgs) |-> pageNumber(i, pgs)]

\* ----------------------------------------------------------- access guard
isPaginatorUser_Mut(u, bound) == TRUE

isPaginatorUser(u, bound) == u = bound

\* --------------------------------------------------------- reaction router
\* The repository's sources register no reaction handler; the router is the
\* one the specification describes (4.4), driving the functions above.
emojiAction(e) ==
    IF \E a \in Actions : controlEmojis[a] = e
      THEN CHOOSE a \in Actions : controlEmojis[a] = e
      ELSE "none"

\* What the router does with an event: "ignored" (another message, or the
\* paginator is not active), "Unauthorized" (the actor fails the access
\* guard), "unknown" (no control emoji), or the action to dispatch.
routerVerdict(m, u, e) ==
    IF m # message \/ ~active THEN "ignored"
    ELSE IF ~isPaginatorUser(u, user) THEN "Unauthorized"
    ELSE IF emojiAction(e) = "none" THEN "unknown"
    ELSE emojiAction(e)

ReactionAdded(t, m, u, e, editOk) ==
    /\ ~panicked
    /\ pc[t] = "idle"
    /\ disturbed' = TRUE
    /\ IF routerVerdict(m, u, e) \in {"ignored", "Unauthorized", "unknown"}
         THEN /\ lastOp' = Op("ReactionAdded", routerVerdict(m, u, e), u, 0)
              /\ UNCHANGED <<index, active, pc, removeCalls, failures, panicked>>
         ELSE IF routerVerdict(m, u, e) = "stop"
         THEN /\ closeCall(t, "ReactionAdded", "stopping", u)
              /\ UNCHANGED <<index, failures, panicked>>
         ELSE /\ LET r == Navigate(routerVerdict(m, u, e), index, pages, editOk)
                 IN /\ navEffect(r)
                    /\ lastOp' = Op("ReactionAdded", r.err, u, r.edit)
              /\ UNCHANGED <<active, pc, removeCalls>>
    /\ UNCHANGED <<pages, reactionsRemoved, message, user, timeOut, remaining,
                   sent, reactionsAdded, footers>>

Next ==
    \/ \E t \in Threads, valid \in BOOLEAN : Add(t, valid)
    \/ \E t \in Threads : RunCall(t)
    \/ \E t \in Threads, ok \in BOOLEAN : RunSendReturn(t, ok)
    \/ Tick
    \/ \E t \in Threads : RunTimeout(t)
    \/ \E t \in Threads, ok \in BOOLEAN : closeReturn(t, ok)
    \/ \E t \in Threads, a \in NavActions, editOk \in BOOLEAN : NavCall(t, a, editOk)
    \/ \E t \in Threads, m \in MessageIds, u \in UserPtrs, e \in Emojis,
          editOk \in BOOLEAN : ReactionAdded(t, m, u, e, editOk)

Spec == Init /\ [][Next]_vars

\* The scheduler runs every goroutine that can take a step, the platform
\* answers every call, and time passes.
FairSpec ==
    /\ Spec
    /\ WF_vars(Tick)
    /\ \A t \in Threads :
         /\ WF_vars(\E ok \in BOOLEAN : RunSendReturn(t, ok))
         /\ WF_vars(RunTimeout(t))
         /\ WF_vars(\E ok \in BOOLEAN : closeReturn(t, ok))

\* ------------------------------------------------------------- properties
InRun(t) == pc[t] \in {"sending", "waiting", "closing"}

\* Closed: a message is hosted and the paginator is not active.
Closed == message # NoMessage /\ ~active

\* A Run has got past its checks.
RunBegun == message # NoMessage \/ \E t \in Threads : pc[t] = "sending"

\* Exactly one Run has sent its message, no other is sending, and no reaction
\* event or navigation call has reached the paginator.
Solo == ~disturbed /\ sent = 1 /\ \A t \in Threads : pc[t] # "sending"

\* C1: while the paginator is active, 0 <= index <= len(pages)-1 after every
\* transition.
C1_IndexInBounds == active => (0 <= index /\ index <= Len(pages) - 1)

\* C2: a Run call on a paginator with zero pages returns NoPages, sends no
\* message and leaves the paginator as it was: not active, no host message,
\* index unchanged.
C2_RunNoPages ==
    [][(lastOp'.op = "Run" /\ Len(pages) = 0)
         => /\ lastOp'.err = "NoPages"
            /\ sent' = sent /\ pc' = pc
            /\ ~active' /\ message' = NoMessage /\ index' = index
            /\ UNCHANGED <<pages, active, message, reactionsRemoved, removeCalls,
                           remaining>>]_vars

C2_Witness ==
    /\ lastOp.op = "Run" /\ lastOp.err = "NoPages"
    /\ Len(pages) = 0 /\ sent = 0 /\ ~active

\* C3: a Run call made while another Run has not returned is answered with
\* AlreadyRunning; it sends no message and leaves the host message, the index,
\* the active flag and the first run's deadline as they were.
C3_SecondRunRejected ==
    [][(lastOp'.op = "Run" /\ \E u \in Threads : InRun(u))
         => /\ lastOp'.err = "AlreadyRunning"
            /\ UNCHANGED <<pc, sent, message, index, active, remaining>>]_vars

\* C4: a reaction event whose actor has another identity than the bound user
\* changes neither index nor active, whatever its emoji and message.
C4_ForeignActorIgnored ==
    [][(lastOp'.op = "ReactionAdded" /\ Identity(lastOp'.actor) # Identity(user))
         => (index' = index /\ active' = active)]_vars

\* an event of another identity on the hosted message of an active paginator,
\* turned away by the access guard
C4_Witness ==
    /\ lastOp.op = "ReactionAdded" /\ lastOp.err = "Unauthorized"
    /\ Identity(lastOp.actor) # Identity(user)
    /\ active /\ message # NoMessage

\* C5: however often close is called, at most one MessageReactionsRemoveAll
\* call is issued in total, and active is false after each call.
C5_OneRemovalCall ==
    /\ removeCalls <= 1
    /\ lastOp.op = "RunTimeout" => ~active

\* C6 as stated: when a Run that no reaction event disturbed returns, active is
\* false and the reactions have been cleared exactly once.
C6_ClearedOnReturn ==
    (lastOp.op = "RunReturn" /\ Solo)
      => (~active /\ removeCalls = 1 /\ reactionsRemoved)

\* C6 as amended: a Run that waits, undisturbed, eventually returns with
\* active false and exactly one removal call issued; the reactions are
\* recorded as cleared exactly when that call succeeded.
C6_TimeoutCloses ==
    \A t \in Threads :
      (pc[t] = "waiting" /\ Solo)
        ~> \/ ~Solo
           \/ /\ pc[t] = "idle" /\ lastOp.op \in {"RunReturn", "RunTimeout"}
              /\ ~active /\ removeCalls = 1
              /\ reactionsRemoved <=> (lastOp.err = "nil")

C6_Witness ==
    /\ lastOp.op = "RunReturn" /\ lastOp.err = "nil" /\ Solo
    /\ ~active /\ removeCalls = 1 /\ reactionsRemoved

\* C7: next on a running paginator moves index to index+1 below the last page;
\* on the last page it is rejected with IndexBounds, the index stays and no
\* page outside the sequence is accessed.
C7_NextPage ==
    [][(lastOp'.op = "nextPage" /\ active)
         => IF index < Len(pages) - 1
              THEN index' = index + 1 /\ ~panicked'
              ELSE lastOp'.err = "IndexBounds" /\ index' = index /\ ~panicked']_vars

\* C8: once the paginator is closed no step makes it active again, sends a
\* message or replaces the host message, and a Run call does not go on to send.
C8_ClosedIsTerminal ==
    [][Closed => /\ ~active' /\ sent' = sent /\ message' = message
                 /\ lastOp'.op = "Run" => lastOp'.err # "pending"]_vars

\* Run leaves its wait.
RunLeavesWait(t) == Next /\ pc[t] = "waiting" /\ pc'[t] # "waiting"

\* C9: when the close that a stop reaction of the bound user triggered has
\* returned while Run waits, Run can return, whatever is left of its timeout.
C9_StopReleasesRun ==
    \A t \in Threads :
      (pc[t] = "waiting" /\ lastOp.op = "stopReturn") => ENABLED RunLeavesWait(t)

\* C10: once Run has begun no step changes the pages.
C10_PagesFrozen == [][RunBegun => pages' = pages]_vars

NavNames == {NavName(a) : a \in NavActions}

\* C11: when a Run has sent its message and waits, MessageReactionAdd has been
\* called on the hosted message exactly once per control emoji, in the order
\* toBegin, backwards, forwards, toEnd, stop.
C11_ReactionsAddedAtRun ==
    (\E t \in Threads : pc[t] = "waiting")
      => reactionsAdded = addReactions(controlEmojis)

\* C12: when the message edit of a navigation function called on a running
\* paginator fails, the call returns the platform's error and index and
\* active are what they were before the call.
C12_NavigationAtomic ==
    [][(lastOp'.op \in NavNames /\ active /\ lastOp'.err = "PlatformFailure")
         => (index' = index /\ active' = active)]_vars

\* C13: once the paginator is closed, a navigation call or a reaction event
\* does not change index, issues no message edit and returns no error.
C13_ClosedIgnoresNavigation ==
    [][(Closed /\ lastOp'.op \in NavNames \cup {"ReactionAdded"})
         => /\ index' = index
            /\ lastOp'.edit = 0
            /\ lastOp'.err \notin {"IndexBounds", "PlatformFailure"}
            /\ ~panicked']_vars

\* C14: previousPage on a running paginator moves from an index above 0 to
\* index-1 and edits the message to that page; at index 0 it returns
\* IndexBounds, index stays 0 and no edit is issued.
C14_PreviousPage ==
    [][(lastOp'.op = "previousPage" /\ active)
         => /\ ~panicked'
            /\ IF index > 0
                 THEN /\ index' = index - 1
                      /\ lastOp'.edit = pages[index]
                      /\ lastOp'.err \in {"nil", "PlatformFailure"}
                 ELSE /\ lastOp'.err = "IndexBounds"
                      /\ index' = 0
                      /\ lastOp'.edit = 0]_vars

\* previousPage has moved a running paginator one page back, to the first page
C14_Witness ==
    /\ lastOp.op = "previousPage" /\ lastOp.err = "nil"
    /\ active /\ index = 0 /\ lastOp.edit = pages[1]

\* C15: lastPage on a running paginator with at least one page sets index to
\* len(pages)-1 from every index, 0 included, and does not return
\* IndexBounds.
C15_LastPage ==
    [][(lastOp'.op = "lastPage" /\ active /\ Len(pages) >= 1)
         => (index' = Len(pages) - 1 /\ lastOp'.err # "IndexBounds")]_vars

\* C16 as stated: firstPage on a running paginator with pages sets index to 0
\* from every index and does not return IndexBounds, also at index 0.
C16_FirstPageNoError ==
    [][(lastOp'.op = "firstPage" /\ active /\ Len(pages) >= 1)
         => (index' = 0 /\ lastOp'.err # "IndexBounds")]_vars

\* C16 as amended: firstPage on a running paginator leaves index at 0 from
\* every index; from an index above 0 it edits the message to the first page,
\* and at index 0 it returns IndexBounds and issues no edit.
C16_FirstPage ==
    [][(lastOp'.op = "firstPage" /\ active)
         => /\ index' = 0
            /\ ~panicked'
            /\ IF index > 0
                 THEN /\ lastOp'.edit = pages[1]
                      /\ lastOp'.err \in {"nil", "PlatformFailure"}
                 ELSE /\ lastOp'.err = "IndexBounds"
                      /\ lastOp'.edit = 0]_vars

\* firstPage was called on a running paginator that shows the first page, and
\* was rejected
C16_Witness ==
    /\ lastOp.op = "firstPage" /\ lastOp.err = "IndexBounds"
    /\ active /\ index = 0 /\ Len(pages) >= 1

\* C17: with one Run and no failing platform call, the close of the timeout
\* and the close of the stop reaction issue one MessageReactionsRemoveAll call
\* between them in every interleaving, and once both have returned active is
\* false and reactionsRemoved is true.
C17_ConcurrentClose ==
    (sent = 1 /\ failures = 0)
      => /\ removeCalls <= 1
         /\ (removeCalls = 1 /\ \A t \in Threads : pc[t] = "idle")
              => (~active /\ reactionsRemoved)

\* C18: a close that issues MessageReactionsRemoveAll has set active to false
\* before the call; when the call fails, close returns that error to its
\* caller and leaves active and reactionsRemoved as they are.
C18_CloseFailure ==
    [][/\ removeCalls' # removeCalls => ~active'
       /\ (lastOp'.op \in {"RunReturn", "stopReturn"}
             /\ lastOp'.err = "PlatformFailure")
            => /\ active' = active
               /\ reactionsRemoved' = reactionsRemoved
               /\ \E t \in Threads :
                    pc[t] \in {"closing", "stopping"} /\ pc'[t] = "idle"]_vars

\* the removal of a timeout's close has failed, Run has returned the error
\* and the paginator is not active
C18_Witness ==
    /\ lastOp.op = "RunReturn" /\ lastOp.err = "PlatformFailure"
    /\ ~active /\ ~reactionsRemoved /\ removeCalls = 1

\* C19: the page of the initial send of Run, and the page of every message
\* edit, has the footer "{index+1}/{len(pages)}" of the index shown.
C19_FooterOnPush ==
    /\ (lastOp.op = "RunSendReturn" /\ lastOp.err = "pending" /\ index < Len(pages))
         => footers[index + 1] = pageNumber(index, pages)
    /\ lastOp.edit # 0 => footers[lastOp.edit] = pageNumber(index, pages)

\* C20: an active paginator hosts a message, and a paginator without one is
\* not active, at index 0, with no timer running; when the initial send
\* fails, Run returns the platform's error at once and leaves active, the
\* message, the index and the timers as they were.
C20_ActiveHasMessage ==
    /\ [](/\ active => message # NoMessage
          /\ message = NoMessage
               => (~active /\ index = 0 /\ \A t \in Threads : pc[t] # "waiting"))
    /\ [][(lastOp'.op = "RunSendReturn" /\ lastOp'.err = "PlatformFailure")
            => /\ UNCHANGED <<active, message, index, remaining, sent>>
               /\ \E t \in Threads : pc[t] = "sending" /\ pc'[t] = "idle"]_vars

\* the initial send has failed and the paginator is as NewPaginator left it
C20_Witness ==
    /\ lastOp.op = "RunSendReturn" /\ lastOp.err = "PlatformFailure"
    /\ ~active /\ message = NoMessage /\ index = 0
    /\ \A t \in Threads : pc[t] = "idle"

=============================================================================
